---- MODULE Spec2Model ----
(***************************************************************************)
(* Retrieval-and-grounding engine of the RAG pipeline: chunking with exact *)
(* character offsets (src/chunking.py), reciprocal rank fusion and the     *)
(* dense index (src/retriever.py), citation validation and grounding       *)
(* (src/citations.py) over the page/chunk store (src/db.py).               *)
(*                                                                         *)
(* Texts are sequences of one-character strings.  Offsets are 0-based and  *)
(* half-open as in Python; a sequence position p is the offset p - 1.      *)
(* A missing text (Python None) is the one-element sequence <<"None">>.     *)
(***************************************************************************)
EXTENDS Integers, Sequences, FiniteSets, TLC

VARIABLES
    enc,          \* chunking.py: the tokenizer behind count_tokens
    page_data,    \* chunking.py: the page handed to a chunker
    out_chunks,   \* chunking.py: the chunk list a chunker returned
    ck_call,      \* chunking.py: the call that produced out_chunks
    sw_in,        \* _sliding_window_split: its arguments
    start_w,      \* _sliding_window_split: loop variable start_w
    sw_chunks,    \* _sliding_window_split: local list chunks
    sw_pc,        \* _sliding_window_split: "loop" or "done"
    result_lists, \* reciprocal_rank_fusion: its argument
    fused,        \* reciprocal_rank_fusion: [call, out], its return value
    bm25,         \* HybridRetriever.bm25: BM25Index [built, chunk_ids]
    dense,        \* HybridRetriever.dense: DenseRetriever [index, chunk_ids]
    search,       \* HybridRetriever.search: the last call and its outcome
    pages,        \* db.py: table pages, (doc_id, page) -> page_text
    chunk_table,  \* db.py: table chunks, the rows in row order
    PAGE_CACHE,   \* citations.py: PAGE_CACHE, (doc_id, page) -> text or None
    page_lookups, \* db.py: calls of get_page_text so far, per (doc_id, page)
    cite_out,     \* citations.py: the last call and its returned value
    CHUNK_CACHE,  \* pipeline.py: CHUNK_CACHE, chunk_id -> chunk
    uuids,        \* chunking.py: chunk ids _make_chunk has handed out
    answer_out    \* pipeline.py: the last answer_question call and its outcome

chunkVars == <<enc, page_data, out_chunks, ck_call>>
swVars == <<sw_in, start_w, sw_chunks, sw_pc>>
fuseVars == <<result_lists, fused>>
retrVars == <<bm25, dense, search>>
citeVars == <<pages, chunk_table, PAGE_CACHE, page_lookups, cite_out>>
pipeVars == <<CHUNK_CACHE, uuids, answer_out>>
vars == <<enc, page_data, out_chunks, ck_call, sw_in, start_w, sw_chunks, sw_pc,
          result_lists, fused, bm25, dense, search,
          pages, chunk_table, PAGE_CACHE, page_lookups, cite_out,
          CHUNK_CACHE, uuids, answer_out>>

None == <<"None">>

(***************************************************************************)
(* Bounds of the model.                                                    *)
(***************************************************************************)
MaxLen == 3        \* page texts of every length up to MaxLen are enumerated
MaxBlocks == 2     \* layout spans per page
MaxIds == 3        \* distinct chunk ids, and so the length of a ranked list
MaxLists == 2      \* ranked lists handed to one fusion
MaxBuild == 2      \* chunks handed to one build of the retriever
MaxChunks == 2     \* rows of the chunks table
MaxCites == 2      \* segments of an answer
MaxUuids == 4      \* chunk ids handed out by ingestion runs

(***************************************************************************)
(* Python string primitives.                                               *)
(***************************************************************************)
Min(a, b) == IF a <= b THEN a ELSE b
Max(a, b) == IF a >= b THEN a ELSE b
SetMax(S) == CHOOSE x \in S : \A y \in S : y <= x
SetMin(S) == CHOOSE x \in S : \A y \in S : x <= y

IsSpace(c) == c \in {" ", "\n"}
IsDigit(c) == c \in {"0", "1", "2", "3", "4", "5", "6", "7", "8", "9"}

\* s[i:j] with Python's treatment of negative and out-of-range indices
PySlice(s, i, j) ==
    LET n == Len(s)
        lo == IF i < 0 THEN Max(n + i, 0) ELSE Min(i, n)
        hi == IF j < 0 THEN Max(n + j, 0) ELSE Min(j, n)
    IN  IF lo >= hi THEN <<>> ELSE SubSeq(s, lo + 1, hi)

\* len(text) - len(text.lstrip())
LeadingSpaces(s) ==
    IF \A p \in 1..Len(s) : IsSpace(s[p]) THEN Len(s)
    ELSE SetMin({p \in 1..Len(s) : ~IsSpace(s[p])}) - 1

\* text.strip()
Strip(s) ==
    IF \A p \in 1..Len(s) : IsSpace(s[p]) THEN <<>>
    ELSE LET nz == {p \in 1..Len(s) : ~IsSpace(s[p])}
         IN  SubSeq(s, SetMin(nz), SetMax(nz))

\* text.find(sub, start): lowest offset >= start where sub occurs, else -1
Find(s, sub, start) ==
    LET hits == {i \in start..(Len(s) - Len(sub)) :
                    SubSeq(s, i + 1, i + Len(sub)) = sub}
    IN  IF hits = {} THEN -1 ELSE SetMin(hits)

\* [(m.start(), m.end()) for m in re.finditer(r'\S+', text)]
RECURSIVE WordSpansFrom(_, _)
WordSpansFrom(text, i) ==
    IF i >= Len(text) THEN <<>>
    ELSE IF IsSpace(text[i + 1]) THEN WordSpansFrom(text, i + 1)
    ELSE LET stops == {e \in (i + 1)..Len(text) :
                          e = Len(text) \/ IsSpace(text[e + 1])}
             e == SetMin(stops)
         IN  <<[s |-> i, e |-> e]>> \o WordSpansFrom(text, e)

WordSpans(text) == WordSpansFrom(text, 0)

(***************************************************************************)
(* count_tokens wraps an external byte-pair tokenizer.  The tokenizer is   *)
(* fixed for a run and drawn from a family: one token per character, one   *)
(* per word, one per pair of characters, and a vocabulary holding a merged *)
(* three-character token, under which a longer text can have fewer tokens  *)
(* than its prefix.  Whitespace attaches to the following token.           *)
(***************************************************************************)
Encodings == {"char", "word", "pair", "merge3"}

WordTokens(e, n) ==
    CASE e = "char" -> n
      [] e = "word" -> 1
      [] e = "pair" -> (n + 1) \div 2
      [] e = "merge3" -> IF n = 3 THEN 1 ELSE n

RECURSIVE SumTokens(_, _)
SumTokens(e, ws) ==
    IF ws = <<>> THEN 0
    ELSE WordTokens(e, ws[1].e - ws[1].s) + SumTokens(e, Tail(ws))

count_tokens(text) == SumTokens(enc, WordSpans(text))

(***************************************************************************)
(* _sliding_window_split                                                   *)
(***************************************************************************)
\* the inner while loop with its else clause, and the end_w < start_w guard
RECURSIVE ExtendWindow(_, _, _, _, _)
ExtendWindow(text, ws, sw, ew, max_tokens) ==
    IF ew >= Len(ws) THEN ew - 1
    ELSE IF count_tokens(PySlice(text, ws[sw + 1].s, ws[ew + 1].e)) > max_tokens
            /\ ew > sw
         THEN ew - 1
         ELSE ExtendWindow(text, ws, sw, ew + 1, max_tokens)

WindowEnd(text, ws, sw, max_tokens) ==
    LET ew == ExtendWindow(text, ws, sw, sw, max_tokens)
    IN  IF ew < sw THEN sw ELSE ew

\* a loop that may stall: the overlap walk reaches start_w and nothing forces progress
NextStartStall(text, ws, sw, ew, overlap_tokens) ==
    LET cands == {ow \in sw..ew :
                    count_tokens(PySlice(text, ws[ow + 1].s, ws[ew + 1].e))
                        >= overlap_tokens}
    IN  IF cands # {} THEN SetMax(cands) ELSE ew + 1

\* the overlap walk "for ow in range(end_w, start_w, -1)" and the progress guard
NextStart(text, ws, sw, ew, overlap_tokens) ==
    LET cands == {ow \in (sw + 1)..ew :
                    count_tokens(PySlice(text, ws[ow + 1].s, ws[ew + 1].e))
                        >= overlap_tokens}
        next_start == IF cands # {} THEN SetMax(cands) ELSE ew + 1
    IN  IF next_start <= sw THEN ew + 1 ELSE next_start

\* the dict appended to chunks in one iteration
Window(text, base_offset, ws, sw, ew) ==
    [text |-> PySlice(text, ws[sw + 1].s, ws[ew + 1].e),
     char_start |-> base_offset + ws[sw + 1].s,
     char_end |-> base_offset + ws[ew + 1].e]

RECURSIVE SlidingFrom(_, _, _, _, _, _)
SlidingFrom(text, base_offset, max_tokens, overlap_tokens, ws, sw) ==
    IF sw >= Len(ws) THEN <<>>
    ELSE LET ew == WindowEnd(text, ws, sw, max_tokens)
         IN  <<Window(text, base_offset, ws, sw, ew)>> \o
             SlidingFrom(text, base_offset, max_tokens, overlap_tokens, ws,
                         NextStart(text, ws, sw, ew, overlap_tokens))

_sliding_window_split(text, base_offset, max_tokens, overlap_tokens) ==
    SlidingFrom(text, base_offset, max_tokens, overlap_tokens, WordSpans(text), 0)

(***************************************************************************)
(* detect_headings                                                         *)
(***************************************************************************)
HeadingWords ==
    {<<"A","r","t","i","c","l","e">>, <<"S","e","c","t","i","o","n">>,
     <<"C","h","a","p","t","e","r">>, <<"P","a","r","t">>,
     <<"A","R","T","I","C","L","E">>, <<"S","E","C","T","I","O","N">>}

\* offset of the first character at or after i that is not whitespace
SkipSpaces(txt, i) ==
    LET rest == {p \in i..(Len(txt) - 1) : ~IsSpace(txt[p + 1])}
    IN  IF rest = {} THEN Len(txt) ELSE SetMin(rest)

\* offset of the first character at or after i that is not a digit
SkipDigits(txt, i) ==
    LET rest == {p \in i..(Len(txt) - 1) : ~IsDigit(txt[p + 1])}
    IN  IF rest = {} THEN Len(txt) ELSE SetMin(rest)

\* re.match(r'^(Article|Section|Chapter|Part|ARTICLE|SECTION)\s+\d+', txt)
MatchesLabel(txt) ==
    \E w \in HeadingWords :
        /\ Len(txt) > Len(w)
        /\ SubSeq(txt, 1, Len(w)) = w
        /\ LET d == SkipSpaces(txt, Len(w))
           IN  d > Len(w) /\ d < Len(txt) /\ IsDigit(txt[d + 1])

\* re.match(r'^\d+\.\d+', txt)
MatchesOutline(txt) ==
    LET d == SkipDigits(txt, 0)
    IN  d > 0 /\ d + 1 < Len(txt) /\ txt[d + 1] = "." /\ IsDigit(txt[d + 2])

\* sorted(sizes)[len(sizes) // 2]
Median(sizes) ==
    LET k == Len(sizes) \div 2
    IN  CHOOSE v \in {sizes[i] : i \in 1..Len(sizes)} :
            /\ Cardinality({i \in 1..Len(sizes) : sizes[i] < v}) <= k
            /\ Cardinality({i \in 1..Len(sizes) : sizes[i] <= v}) > k

SelectField(blocks) == [i \in 1..Len(blocks) |-> blocks[i].font_size]

IsHeadingBlock(b, median_size) ==
    \/ 100 * b.font_size > 115 * median_size
    \/ (b.font_flags \div 16) % 2 = 1 /\ b.font_size >= median_size
    \/ MatchesLabel(Strip(b.text))
    \/ MatchesOutline(Strip(b.text))

detect_headings(text_blocks) ==
    LET filled == SelectSeq(text_blocks, LAMBDA b : Strip(b.text) # <<>>)
    IN  IF filled = <<>> THEN <<>>
        ELSE LET median_size == Median(SelectField(filled))
                 heads == SelectSeq(filled,
                              LAMBDA b : IsHeadingBlock(b, median_size))
             IN  [i \in 1..Len(heads) |-> Strip(heads[i].text)]

(***************************************************************************)
(* _trim_offsets, _make_chunk                                              *)
(***************************************************************************)
\* an offset computed from the untrimmed text: the leading whitespace is not added
TrimNoShift(text, base_offset) ==
    [text |-> Strip(text), cs |-> base_offset,
     ce |-> base_offset + Len(Strip(text))]

_trim_offsets(text, base_offset) ==
    LET new_start == base_offset + LeadingSpaces(text)
    IN  [text |-> Strip(text), cs |-> new_start,
         ce |-> new_start + Len(Strip(text))]

\* chunk_id is a fresh uuid4 and carries no information about the chunk
_make_chunk(doc_id, page, cs, ce, text, token_count, heading, mode) ==
    [doc_id |-> doc_id, page |-> page, char_start |-> cs, char_end |-> ce,
     heading |-> heading, chunk_text |-> text, token_count |-> token_count,
     chunk_mode |-> mode]

(***************************************************************************)
(* structural_chunk                                                        *)
(***************************************************************************)
\* the loop locating each heading after the previous match
RECURSIVE HeadingPositions(_, _, _)
HeadingPositions(page_text, heading_texts, search_from) ==
    IF heading_texts = <<>> THEN <<>>
    ELSE LET h == Head(heading_texts)
             idx == Find(page_text, h, search_from)
         IN  IF idx >= 0
             THEN <<[pos |-> idx, heading |-> h]>> \o
                  HeadingPositions(page_text, Tail(heading_texts), idx + Len(h))
             ELSE HeadingPositions(page_text, Tail(heading_texts), search_from)

Sections(page_text, hp) ==
    IF hp # <<>>
    THEN LET first_pos == hp[1].pos
             lead == IF first_pos > 0 /\ Strip(PySlice(page_text, 0, first_pos)) # <<>>
                     THEN <<[heading |-> None, char_start |-> 0,
                             char_end |-> first_pos]>>
                     ELSE <<>>
         IN  lead \o
             [i \in 1..Len(hp) |->
                 [heading |-> hp[i].heading, char_start |-> hp[i].pos,
                  char_end |-> IF i + 1 <= Len(hp) THEN hp[i + 1].pos
                               ELSE Len(page_text)]]
    ELSE <<[heading |-> None, char_start |-> 0, char_end |-> Len(page_text)]>>

\* the chunks one window list turns into
SubChunks(doc_id, page_num, subs, heading, mode) ==
    [i \in 1..Len(subs) |->
        _make_chunk(doc_id, page_num, subs[i].char_start, subs[i].char_end,
                    subs[i].text, count_tokens(subs[i].text), heading, mode)]

\* the chunks of one section
SectionChunks(page_data_, sec, max_tokens, overlap_tokens) ==
    LET raw_text == PySlice(page_data_.text, sec.char_start, sec.char_end)
        t == _trim_offsets(raw_text, sec.char_start)
        tokens == count_tokens(t.text)
    IN  IF t.text = <<>> THEN <<>>
        ELSE IF tokens <= max_tokens
        THEN <<_make_chunk(page_data_.doc_id, page_data_.page, t.cs, t.ce,
                           t.text, tokens, sec.heading, "structural")>>
        ELSE SubChunks(page_data_.doc_id, page_data_.page,
                       _sliding_window_split(t.text, t.cs, max_tokens,
                                             overlap_tokens),
                       sec.heading, "structural")

RECURSIVE FlattenSectionsBackwards(_, _, _, _)
FlattenSectionsBackwards(page_data_, secs, max_tokens, overlap_tokens) ==
    IF secs = <<>> THEN <<>>
    ELSE FlattenSectionsBackwards(page_data_, Tail(secs), max_tokens, overlap_tokens) \o
         SectionChunks(page_data_, Head(secs), max_tokens, overlap_tokens)

RECURSIVE FlattenSections(_, _, _, _)
FlattenSections(page_data_, secs, max_tokens, overlap_tokens) ==
    IF secs = <<>> THEN <<>>
    ELSE SectionChunks(page_data_, Head(secs), max_tokens, overlap_tokens) \o
         FlattenSections(page_data_, Tail(secs), max_tokens, overlap_tokens)

structural_chunk(page_data_, max_tokens, overlap_tokens) ==
    IF Strip(page_data_.text) = <<>> THEN <<>>
    ELSE FlattenSections(page_data_,
             Sections(page_data_.text,
                      HeadingPositions(page_data_.text,
                                       detect_headings(page_data_.text_blocks), 0)),
             max_tokens, overlap_tokens)

(***************************************************************************)
(* _split_sentences, semantic_chunk                                        *)
(***************************************************************************)
IsSentenceEnd(c) == c \in {".", "!", "?"}

\* end offset of the maximal run of characters of class ws starting at i
RunEnd(text, i, ws) ==
    LET rest == {p \in i..(Len(text) - 1) : text[p + 1] \notin ws}
    IN  IF rest = {} THEN Len(text) ELSE SetMin(rest)

\* end offset of the separator r'(?<=[.!?])\s+|\n{2,}' matched at i, or -1
SeparatorAt(text, i) ==
    IF i > 0 /\ IsSentenceEnd(text[i]) /\ IsSpace(text[i + 1])
    THEN RunEnd(text, i, {" ", "\n"})
    ELSE IF RunEnd(text, i, {"\n"}) >= i + 2 THEN RunEnd(text, i, {"\n"})
    ELSE -1

\* re.split: the pieces between the separators, scanning from offset i
RECURSIVE SplitFrom(_, _, _)
SplitFrom(text, part_start, i) ==
    IF i >= Len(text) THEN <<PySlice(text, part_start, Len(text))>>
    ELSE LET j == SeparatorAt(text, i)
         IN  IF j >= 0
             THEN <<PySlice(text, part_start, i)>> \o SplitFrom(text, j, j)
             ELSE SplitFrom(text, part_start, i + 1)

_split_sentences(text) ==
    LET parts == SplitFrom(text, 0, 0)
        kept == SelectSeq(parts, LAMBDA q : Strip(q) # <<>>)
    IN  [i \in 1..Len(kept) |-> Strip(kept[i])]

\* the loop recovering each sentence's span, searching on from the cursor
RECURSIVE SentenceSpans(_, _, _)
SentenceSpans(page_text, sentences, cursor) ==
    IF sentences = <<>> THEN <<>>
    ELSE LET sent == Head(sentences)
             found == Find(page_text, sent, cursor)
             idx == IF found = -1 THEN cursor ELSE found
         IN  <<[s |-> idx, e |-> idx + Len(sent)]>> \o
             SentenceSpans(page_text, Tail(sentences), idx + Len(sent))

\* groups after the first i similarities: break whenever similarity < threshold
RECURSIVE Groups(_, _, _)
Groups(sims, similarity_threshold, i) ==
    IF i = 0 THEN <<<<0>>>>
    ELSE LET g == Groups(sims, similarity_threshold, i - 1)
         IN  IF sims[i] < similarity_threshold
             THEN Append(g, <<i>>)
             ELSE [g EXCEPT ![Len(g)] = Append(@, i)]

\* groups left as they were cut
MergedNever(groups, i) == SubSeq(groups, 1, i)

\* merge tiny groups (< 2 sentences) into their neighbour: the first i groups
RECURSIVE Merged(_, _)
Merged(groups, i) ==
    IF i = 0 THEN <<>>
    ELSE LET m == Merged(groups, i - 1)
             g == groups[i]
         IN  IF m # <<>> /\ Len(g) < 2
             THEN [m EXCEPT ![Len(m)] = @ \o g]
             ELSE Append(m, g)

SemanticOverlap == 50

\* the chunks of one merged group
GroupChunks(page_data_, spans, group, max_tokens) ==
    LET cs == spans[group[1] + 1].s
        ce == spans[group[Len(group)] + 1].e
        chunk_text == PySlice(page_data_.text, cs, ce)
        tokens == count_tokens(chunk_text)
    IN  IF tokens > max_tokens
        THEN SubChunks(page_data_.doc_id, page_data_.page,
                       _sliding_window_split(chunk_text, cs, max_tokens,
                                             SemanticOverlap),
                       None, "semantic")
        ELSE <<_make_chunk(page_data_.doc_id, page_data_.page, cs, ce,
                           chunk_text, tokens, None, "semantic")>>

RECURSIVE FlattenGroups(_, _, _, _)
FlattenGroups(page_data_, spans, merged, max_tokens) ==
    IF merged = <<>> THEN <<>>
    ELSE GroupChunks(page_data_, spans, Head(merged), max_tokens) \o
         FlattenGroups(page_data_, spans, Tail(merged), max_tokens)

\* sims[i] is cosine_similarity(embeddings[i-1], embeddings[i]) of the
\* sentence embeddings the external service returned, in hundredths
semantic_chunk(page_data_, sims, similarity_threshold, max_tokens) ==
    LET page_text == page_data_.text
        sentences == _split_sentences(page_text)
        spans == SentenceSpans(page_text, sentences, 0)
    IN  IF Strip(page_text) = <<>> THEN <<>>
        ELSE IF sentences = <<>> THEN <<>>
        ELSE IF Len(sentences) = 1
        THEN LET txt == PySlice(page_text, spans[1].s, spans[1].e)
             IN  <<_make_chunk(page_data_.doc_id, page_data_.page,
                               spans[1].s, spans[1].e, txt, count_tokens(txt),
                               None, "semantic")>>
        ELSE FlattenGroups(page_data_, spans,
                 Merged(Groups(sims, similarity_threshold, Len(sims)),
                        Len(Groups(sims, similarity_threshold, Len(sims)))),
                 max_tokens)

(***************************************************************************)
(* Inputs of the chunkers: every page text up to MaxLen characters, a few  *)
(* longer pages with several sentences and sections, and layouts of up to  *)
(* MaxBlocks spans.                                                        *)
(***************************************************************************)
Chars == {"a", ".", " ", "\n"}

SeqsUpTo(S, n) == UNION {[1..k -> S] : k \in 0..n}

LongPages ==
    {<<"a", ".", " ", "a", ".", " ", "a", ".", " ", "a">>,
     <<"a", ".", " ", "a", ".", " ", "a", ".", " ", "a", ".", " ", "a", ".",
       " ", "a", ".">>,
     <<"a", " ", "a", "\n", "\n", "a", "a", "a", ".", " ", "a">>,
     <<" ", "P", "a", "r", "t", " ", "1", "\n", "a", " ", "a", " ">>}

PageTexts == SeqsUpTo(Chars, MaxLen) \cup LongPages

Block(t, size, flags) == [text |-> t, font_size |-> size, font_flags |-> flags]

BlockOptions ==
    {Block(<<"a">>, 10, 0), Block(<<"a">>, 10, 16),
     Block(<<" ", "a", ".">>, 10, 16), Block(<<" ">>, 10, 16)}

LongLayouts ==
    {<<Block(<<"a">>, 10, 0), Block(<<".">>, 10, 0), Block(<<"a", ".">>, 12, 0)>>,
     <<Block(<<"P", "a", "r", "t", " ", "1">>, 10, 0), Block(<<"a">>, 10, 0)>>,
     <<Block(<<"1", ".", "1">>, 10, 0), Block(<<"a">>, 12, 4)>>}

Layouts == SeqsUpTo(BlockOptions, MaxBlocks) \cup LongLayouts

TokenBudgets == {1, 2}
OverlapBudgets == {0, 1, 2, 3}
SimValues == {70, 75}
Thresholds == {75}

PageData(t, blocks) ==
    [doc_id |-> "d1", page |-> 1, text |-> t, text_blocks |-> blocks]

(***************************************************************************)
(* The chunkers as operations.                                             *)
(***************************************************************************)
InitChunk ==
    /\ enc \in Encodings
    /\ page_data = PageData(<<>>, <<>>)
    /\ out_chunks = <<>>
    /\ ck_call = [fn |-> "none"]

StructuralChunk ==
    /\ ck_call.fn = "none"
    /\ \E t \in PageTexts, blocks \in Layouts,
          mt \in TokenBudgets, ov \in OverlapBudgets :
        /\ page_data' = PageData(t, blocks)
        /\ ck_call' = [fn |-> "structural_chunk", max_tokens |-> mt,
                       overlap_tokens |-> ov]
        /\ out_chunks' = structural_chunk(PageData(t, blocks), mt, ov)
        /\ UNCHANGED enc

SemanticChunk ==
    /\ ck_call.fn = "none"
    /\ \E t \in PageTexts, th \in Thresholds, mt \in TokenBudgets :
        LET n == Len(_split_sentences(t))
        IN  \E sims \in [1..(IF n > 1 THEN n - 1 ELSE 0) -> SimValues] :
                /\ page_data' = PageData(t, <<>>)
                /\ ck_call' = [fn |-> "semantic_chunk", max_tokens |-> mt,
                               similarity_threshold |-> th, sims |-> sims,
                               groups |-> IF n > 1 THEN Groups(sims, th, Len(sims))
                                          ELSE <<>>,
                               merged |-> IF n > 1
                                          THEN Merged(Groups(sims, th, Len(sims)),
                                                      Len(Groups(sims, th, Len(sims))))
                                          ELSE <<>>]
                /\ out_chunks' = semantic_chunk(PageData(t, <<>>), sims, th, mt)
                /\ UNCHANGED enc

(***************************************************************************)
(* _sliding_window_split, one loop iteration at a time.                    *)
(***************************************************************************)
BaseOffsets == {0, 2}

SlideIdle ==
    /\ sw_in = [text |-> <<>>, base_offset |-> 0, max_tokens |-> 0,
                overlap_tokens |-> 0]
    /\ start_w = 0
    /\ sw_chunks = <<>>
    /\ sw_pc = "idle"

\* entry of the function: the arguments are bound, chunks = [], start_w = 0
InitSlide ==
    /\ sw_in \in [text : PageTexts, base_offset : BaseOffsets,
                  max_tokens : TokenBudgets, overlap_tokens : OverlapBudgets]
    /\ start_w = 0
    /\ sw_chunks = <<>>
    /\ sw_pc = "loop"

SlideIter ==
    /\ sw_pc = "loop"
    /\ start_w < Len(WordSpans(sw_in.text))
    /\ LET ws == WordSpans(sw_in.text)
           end_w == WindowEnd(sw_in.text, ws, start_w, sw_in.max_tokens)
       IN  /\ sw_chunks' = Append(sw_chunks,
                  Window(sw_in.text, sw_in.base_offset, ws, start_w, end_w))
           /\ start_w' = NextStart(sw_in.text, ws, start_w, end_w,
                                   sw_in.overlap_tokens)
    /\ UNCHANGED <<sw_in, sw_pc>>

SlideReturn ==
    /\ sw_pc = "loop"
    /\ start_w >= Len(WordSpans(sw_in.text))
    /\ sw_pc' = "done"
    /\ UNCHANGED <<sw_in, start_w, sw_chunks>>

(***************************************************************************)
(* reciprocal_rank_fusion.  Chunk ids are numbered 1..MaxIds.  A ranked    *)
(* list is what BM25Index.search and DenseRetriever.search return: items   *)
(* with distinct chunk ids and rank = position.  A score is an exact       *)
(* fraction, held as its numerator over the common denominator ScoreDen.   *)
(***************************************************************************)
RRF_K == 60

ChunkIds == 1..MaxIds

RECURSIVE DenUpTo(_)
DenUpTo(r) == IF r = 0 THEN 1 ELSE (RRF_K + r) * DenUpTo(r - 1)

ScoreDen == DenUpTo(MaxIds)

\* a term computed from the 0-based position instead of the 1-based rank
RRFTermZeroBased(k, rank) == ScoreDen \div (k + rank - 1)

\* 1.0 / (k + item["rank"])
RRFTerm(k, rank) == ScoreDen \div (k + rank)

Ranked(ids) == [i \in 1..Len(ids) |-> [chunk_id |-> ids[i], rank |-> i]]

RankedLists ==
    {Ranked(ids) : ids \in {q \in SeqsUpTo(ChunkIds, MaxIds) :
                               \A i, j \in 1..Len(q) : i # j => q[i] # q[j]}}

\* the score is overwritten instead of accumulated
AddScoreOverwrite(scores, cid, term) ==
    IF \E i \in 1..Len(scores) : scores[i].chunk_id = cid
    THEN [i \in 1..Len(scores) |->
             IF scores[i].chunk_id = cid
             THEN [scores[i] EXCEPT !.rrf_score = term]
             ELSE scores[i]]
    ELSE Append(scores, [chunk_id |-> cid, rrf_score |-> term])

\* rrf_scores[cid] = rrf_scores.get(cid, 0.0) + term, on a dict that keeps
\* its keys in insertion order
AddScore(scores, cid, term) ==
    IF \E i \in 1..Len(scores) : scores[i].chunk_id = cid
    THEN [i \in 1..Len(scores) |->
             IF scores[i].chunk_id = cid
             THEN [scores[i] EXCEPT !.rrf_score = @ + term]
             ELSE scores[i]]
    ELSE Append(scores, [chunk_id |-> cid, rrf_score |-> 0 + term])

\* the inner loop over the first n items of one list
RECURSIVE AddItems(_, _, _, _)
AddItems(scores, results, k, n) ==
    IF n = 0 THEN scores
    ELSE AddScore(AddItems(scores, results, k, n - 1),
                  results[n].chunk_id, RRFTerm(k, results[n].rank))

\* the outer loop over the first n lists
RECURSIVE AddLists(_, _, _)
AddLists(lists, k, n) ==
    IF n = 0 THEN <<>>
    ELSE AddItems(AddLists(lists, k, n - 1), lists[n], k, Len(lists[n]))

\* a sort that does not keep the dict order among equal scores
SortedDescUnstable(scores) ==
    LET pos(i) == 1 + Cardinality({j \in 1..Len(scores) :
                          \/ scores[j].rrf_score > scores[i].rrf_score
                          \/ scores[j].rrf_score = scores[i].rrf_score /\ j > i})
    IN  [p \in 1..Len(scores) |->
            scores[CHOOSE i \in 1..Len(scores) : pos(i) = p]]

\* sorted(rrf_scores.items(), key=lambda x: x[1], reverse=True): a stable sort
SortedDesc(scores) ==
    LET pos(i) == 1 + Cardinality({j \in 1..Len(scores) :
                          \/ scores[j].rrf_score > scores[i].rrf_score
                          \/ scores[j].rrf_score = scores[i].rrf_score /\ j < i})
    IN  [p \in 1..Len(scores) |->
            scores[CHOOSE i \in 1..Len(scores) : pos(i) = p]]

reciprocal_rank_fusion(lists, k) ==
    LET ranked == SortedDesc(AddLists(lists, k, Len(lists)))
    IN  [p \in 1..Len(ranked) |->
            [chunk_id |-> ranked[p].chunk_id,
             rrf_score |-> ranked[p].rrf_score, rank |-> p]]

FuseIdle ==
    /\ result_lists = <<>>
    /\ fused = [call |-> "none", out |-> <<>>]

\* one call reciprocal_rank_fusion(result_lists) with the default k
Fuse ==
    /\ fused.call = "none"
    /\ \E lists \in SeqsUpTo(RankedLists, MaxLists) :
          /\ result_lists' = lists
          /\ fused' = [call |-> "reciprocal_rank_fusion",
                       out |-> reciprocal_rank_fusion(lists, RRF_K)]

(***************************************************************************)
(* BM25Index, DenseRetriever, HybridRetriever.  A chunk handed to build is *)
(* [chunk_id, embedding], embedding telling whether c.get("embedding") is  *)
(* truthy.  The FAISS index is [built, owners]: built is FALSE while       *)
(* self.index is None, and owners[i] is the chunk whose embedding is the   *)
(* i-th vector of the index.  The scores of BM25Okapi and of FAISS come    *)
(* from outside; a search takes the order they induce, best first, as a    *)
(* permutation of the indexed positions.                                   *)
(***************************************************************************)
Perms(n) == {f \in [1..n -> 1..n] : \A i, j \in 1..n : i # j => f[i] # f[j]}

BuildInputs ==
    {q \in SeqsUpTo([chunk_id : 1..MaxBuild, embedding : BOOLEAN], MaxBuild) :
        /\ q # <<>>
        /\ \A i, j \in 1..Len(q) : i # j => q[i].chunk_id # q[j].chunk_id}

IdsOfChunks(chunks) == [i \in 1..Len(chunks) |-> chunks[i].chunk_id]

\* BM25Index.build
bm25_build(chunks) == [built |-> TRUE, chunk_ids |-> IdsOfChunks(chunks)]

\* a build that drops the stale index when there is nothing to index
dense_build_reset(d, chunks) ==
    LET embedded == SelectSeq(chunks, LAMBDA c : c.embedding)
    IN  [index |-> [built |-> embedded # <<>>, owners |-> IdsOfChunks(embedded)],
         chunk_ids |-> IdsOfChunks(embedded)]

\* DenseRetriever.build: with nothing to index it returns before touching
\* self.index
dense_build(d, chunks) ==
    LET embedded == SelectSeq(chunks, LAMBDA c : c.embedding)
    IN  IF embedded = <<>>
        THEN [index |-> d.index, chunk_ids |-> <<>>]
        ELSE [index |-> [built |-> TRUE, owners |-> IdsOfChunks(embedded)],
              chunk_ids |-> IdsOfChunks(embedded)]

Raised(err) == [status |-> "raised", error |-> err, results |-> <<>>]
Returned(res) == [status |-> "ok", error |-> "none", results |-> res]

\* BM25Index.search: self.index is None before the first build
bm25_search(b, order, top_k) ==
    IF ~b.built THEN Raised("AttributeError")
    ELSE LET top_idx == SubSeq(order, 1, Min(top_k, Len(order)))
         IN  Returned([r \in 1..Len(top_idx) |->
                          [chunk_id |-> b.chunk_ids[top_idx[r]], rank |-> r]])

\* DenseRetriever.search: FAISS pads with -1 past its last vector, and those
\* entries are skipped; self.chunk_ids[idx] raises past the end of the list
dense_search(d, order, top_k) ==
    IF ~d.index.built THEN Raised("AttributeError")
    ELSE LET indices == SubSeq(order, 1, Min(top_k, Len(order)))
         IN  IF \E r \in 1..Len(indices) : indices[r] > Len(d.chunk_ids)
             THEN Raised("IndexError")
             ELSE Returned([r \in 1..Len(indices) |->
                              [chunk_id |-> d.chunk_ids[indices[r]], rank |-> r]])

Methods == {"bm25", "dense", "rrf", "other"}
TopKs == {1, 2}

\* HybridRetriever.search; dense_res is the outcome of the dense branch
hybrid_search(method, top_k, bm25_order, dense_order) ==
    CASE method = "bm25" ->
            [call |-> bm25_search(bm25, bm25_order, top_k),
             dense_res |-> Returned(<<>>)]
      [] method = "dense" ->
            [call |-> dense_search(dense, dense_order, top_k),
             dense_res |-> dense_search(dense, dense_order, top_k)]
      [] method = "rrf" ->
            LET bm25_res == bm25_search(bm25, bm25_order, top_k * 2)
                dense_res == dense_search(dense, dense_order, top_k * 2)
            IN  IF bm25_res.status = "raised"
                THEN [call |-> bm25_res, dense_res |-> Returned(<<>>)]
                ELSE IF dense_res.status = "raised"
                THEN [call |-> dense_res, dense_res |-> dense_res]
                ELSE LET f == reciprocal_rank_fusion(
                                  <<bm25_res.results, dense_res.results>>, RRF_K)
                     IN  [call |-> Returned(SubSeq(f, 1, Min(top_k, Len(f)))),
                          dense_res |-> dense_res]
      [] OTHER -> [call |-> Raised("ValueError"), dense_res |-> Returned(<<>>)]

NoSearch == [method |-> "none", top_k |-> 0, call |-> Returned(<<>>),
             dense_res |-> Returned(<<>>)]

\* HybridRetriever.__init__
RetrIdle ==
    /\ bm25 = [built |-> FALSE, chunk_ids |-> <<>>]
    /\ dense = [index |-> [built |-> FALSE, owners |-> <<>>], chunk_ids |-> <<>>]
    /\ search = NoSearch

\* HybridRetriever.build
HybridBuild ==
    /\ search.method = "none"
    /\ \E chunks \in BuildInputs :
          /\ bm25' = bm25_build(chunks)
          /\ dense' = dense_build(dense, chunks)
    /\ UNCHANGED search

\* HybridRetriever.search on the retriever as last built
HybridSearch ==
    /\ search.method = "none"
    /\ \E method \in Methods, top_k \in TopKs,
          bm25_order \in Perms(Len(bm25.chunk_ids)),
          dense_order \in Perms(Len(dense.index.owners)) :
          search' = [method |-> method, top_k |-> top_k] @@
                    hybrid_search(method, top_k, bm25_order, dense_order)
    /\ UNCHANGED <<bm25, dense>>

(***************************************************************************)
(* The store (src/db.py): table pages keyed by (doc_id, page) and table    *)
(* chunks in row order.  A document id is a text.                          *)
(***************************************************************************)
D1 == <<"d", "1">>
D2 == <<"d", "2">>
Keys == {<<D1, 1>>, <<D2, 1>>}
StoredKeys == {<<D1, 1>>}      \* pages of the ingested folder

ShortPage == <<"a", "b", " ", " ", "c">>
LongPage == [i \in 1..82 |-> "a"]
StoreTexts == {ShortPage, LongPage}

\* db.insert_page: INSERT OR REPLACE on the key (doc_id, page)
insert_page(pages_, doc_id, page, page_text) ==
    [k \in (DOMAIN pages_) \cup {<<doc_id, page>>} |->
        IF k = <<doc_id, page>> THEN page_text ELSE pages_[k]]

\* db.get_page_text: the row's text, None without a row
get_page_text(pages_, doc_id, page) ==
    IF <<doc_id, page>> \in DOMAIN pages_ THEN pages_[<<doc_id, page>>] ELSE None

\* db.insert_chunk: chunk ids are fresh uuids, so a row is always added
insert_chunk(chunks_, chunk) == Append(chunks_, chunk)

\* db.get_all_chunks without a mode: every row, in row order
get_all_chunks(chunks_) == chunks_

\* db.clear_chunks without a mode: DELETE FROM chunks
clear_chunks(chunks_) == <<>>

\* the chunk rows ingestion can store for a page: a chunk starts at the
\* start of a word and ends at the end of a word of the page it was cut from
ChunkRows(doc_id, page, page_text) ==
    LET ws == WordSpans(page_text)
    IN  {[doc_id |-> doc_id, page |-> page,
          char_start |-> ws[i].s, char_end |-> ws[j].e,
          chunk_text |-> PySlice(page_text, ws[i].s, ws[j].e)] :
            <<i, j>> \in {p \in (1..Len(ws)) \X (1..Len(ws)) : p[1] <= p[2]}}

(***************************************************************************)
(* extract_citations (src/citations.py).  An answer is a sequence of       *)
(* segments: prose, a bracket the pattern does not match, or a marker      *)
(* [doc | page | start:end] the pattern matches; the doc group of a marker *)
(* keeps the blanks around the id.                                         *)
(***************************************************************************)
Segment(kind, doc, page, cs, ce) ==
    [kind |-> kind, doc |-> doc, page |-> page, char_start |-> cs, char_end |-> ce]

Prose == Segment("text", <<>>, 0, 0, 0)
Broken == Segment("broken", D1 \o <<" ">>, 1, 0, 0)
Marker(doc, page, cs, ce) == Segment("marker", doc \o <<" ">>, page, cs, ce)

RECURSIVE extract_citations(_)
extract_citations(answer_text) ==
    IF answer_text = <<>> THEN <<>>
    ELSE LET m == Head(answer_text)
             rest == extract_citations(Tail(answer_text))
         IN  IF m.kind = "marker"
             THEN <<[doc_id |-> Strip(m.doc), page |-> m.page,
                     char_start |-> m.char_start, char_end |-> m.char_end,
                     raw |-> m]>> \o rest
             ELSE rest

(***************************************************************************)
(* validate_citation (src/citations.py), with the module's PAGE_CACHE as   *)
(* an argument and as part of the result.                                  *)
(***************************************************************************)
\* the first chunk row of the cited page whose range holds the cited range,
\* 0 when the loop over the rows ends without one
RECURSIVE FirstCover(_, _, _)
FirstCover(citation, chunks_, i) ==
    IF i > Len(chunks_) THEN 0
    ELSE IF /\ chunks_[i].doc_id = citation.doc_id
            /\ chunks_[i].page = citation.page
            /\ citation.char_start >= chunks_[i].char_start
            /\ citation.char_end <= chunks_[i].char_end
         THEN i
         ELSE FirstCover(citation, chunks_, i + 1)

\* a lookup that takes a cached None for a missing entry
CacheMissOrNone(cache, key) == key \notin DOMAIN cache \/ cache[key] = None

\* key not in PAGE_CACHE
CacheMiss(cache, key) == key \notin DOMAIN cache

\* lookups lists the keys get_page_text was called for
validate_citation(citation, cache, pages_, chunks_) ==
    LET key == <<citation.doc_id, citation.page>>
        miss == CacheMiss(cache, key)
        cache2 == IF ~miss THEN cache
                  ELSE [k \in (DOMAIN cache) \cup {key} |->
                          IF k = key
                          THEN get_page_text(pages_, citation.doc_id, citation.page)
                          ELSE cache[k]]
        page_text == cache2[key]
        cs == citation.char_start
        ce == citation.char_end
        snippet == PySlice(page_text, cs, ce)
        page_ok == /\ page_text # None
                   /\ 0 <= cs /\ cs < ce /\ ce <= Len(page_text)
                   /\ Strip(snippet) # <<>>
        i == FirstCover(citation, get_all_chunks(chunks_), 1)
        offset == cs - chunks_[i].char_start
        length == ce - cs
    IN  [cache |-> cache2,
         lookups |-> IF miss THEN <<key>> ELSE <<>>,
         result |->
            IF page_ok THEN [valid |-> TRUE, cited_text |-> snippet]
            ELSE IF i > 0
                 THEN [valid |-> TRUE,
                       cited_text |-> PySlice(chunks_[i].chunk_text, offset,
                                              offset + length)]
                 ELSE [valid |-> FALSE, cited_text |-> None]]

(***************************************************************************)
(* compute_grounding (src/citations.py).  grounding_pct is kept exact, as  *)
(* the fraction num/den.                                                   *)
(***************************************************************************)
PreviewLen == 80

PreviewWhole(cited_text) ==
    IF cited_text # None /\ cited_text # <<>> THEN cited_text ELSE None

\* result["cited_text"][:80] if result["cited_text"] else None
Preview(cited_text) ==
    IF cited_text # None /\ cited_text # <<>>
    THEN PySlice(cited_text, 0, PreviewLen) ELSE None

RECURSIVE GroundLoop(_, _, _, _, _, _, _, _)
GroundLoop(citations, i, cache, lookups, valid_count, details, pages_, chunks_) ==
    IF i > Len(citations)
    THEN [cache |-> cache, lookups |-> lookups, valid_count |-> valid_count,
          details |-> details]
    ELSE LET v == validate_citation(citations[i], cache, pages_, chunks_)
         IN  GroundLoop(citations, i + 1, v.cache, lookups \o v.lookups,
                        IF v.result.valid THEN valid_count + 1 ELSE valid_count,
                        Append(details,
                               [citation |-> citations[i].raw,
                                valid |-> v.result.valid,
                                preview |-> Preview(v.result.cited_text)]),
                        pages_, chunks_)

compute_grounding(answer_text, cache, pages_, chunks_) ==
    LET citations == extract_citations(answer_text)
        loop == GroundLoop(citations, 1, cache, <<>>, 0, <<>>, pages_, chunks_)
    IN  IF citations = <<>>
        THEN [cache |-> cache, lookups |-> <<>>,
              report |-> [grounding_pct |-> [num |-> 0, den |-> 1],
                          total |-> 0, valid |-> 0, details |-> <<>>]]
        ELSE [cache |-> loop.cache, lookups |-> loop.lookups,
              report |-> [grounding_pct |-> [num |-> loop.valid_count * 100,
                                             den |-> Len(citations)],
                          total |-> Len(citations),
                          valid |-> loop.valid_count,
                          details |-> loop.details]]

(***************************************************************************)
(* Operations on the store and the validator.                              *)
(***************************************************************************)
CiteOffsets == {0, 2, 3, 6, 82}

\* citations handed to validate_citation
Citations ==
    {[doc_id |-> k[1], page |-> k[2], char_start |-> cs, char_end |-> ce,
      raw |-> Marker(k[1], k[2], cs, ce)] :
        k \in Keys, cs \in CiteOffsets, ce \in CiteOffsets}

\* the segments answers are made of
Segments ==
    {Prose, Broken,
     Marker(D1, 1, 0, 2), Marker(D1, 1, 0, 3),
     Marker(D1, 1, 0, 82), Marker(D2, 1, 0, 2)}

Answers == SeqsUpTo(Segments, MaxCites)

NoCall == [call |-> "none"]

\* the count of get_page_text calls per key after the calls for the keys in
\* lookups
Counted(counts, lookups) ==
    [k \in Keys |->
        counts[k] + Cardinality({i \in 1..Len(lookups) : lookups[i] = k})]

CiteIdle ==
    /\ pages = [k \in {} |-> None]
    /\ chunk_table = <<>>
    /\ PAGE_CACHE = [k \in {} |-> None]
    /\ page_lookups = [k \in Keys |-> 0]
    /\ cite_out = NoCall

InsertPage ==
    /\ cite_out.call = "none"
    /\ \E k \in StoredKeys, page_text \in StoreTexts :
          pages' = insert_page(pages, k[1], k[2], page_text)
    /\ UNCHANGED <<chunk_table, PAGE_CACHE, page_lookups, cite_out>>

InsertChunk ==
    /\ cite_out.call = "none"
    /\ Len(chunk_table) < MaxChunks
    /\ \E k \in DOMAIN pages :
          \E chunk \in ChunkRows(k[1], k[2], pages[k]) :
             chunk_table' = insert_chunk(chunk_table, chunk)
    /\ UNCHANGED <<pages, PAGE_CACHE, page_lookups, cite_out>>

ClearChunks ==
    /\ cite_out.call = "none"
    /\ chunk_table # <<>>
    /\ chunk_table' = clear_chunks(chunk_table)
    /\ UNCHANGED <<pages, PAGE_CACHE, page_lookups, cite_out>>

ValidateCitation ==
    /\ cite_out.call = "none"
    /\ \E citation \in Citations :
          LET v == validate_citation(citation, PAGE_CACHE, pages, chunk_table)
          IN  /\ PAGE_CACHE' = v.cache
              /\ page_lookups' = Counted(page_lookups, v.lookups)
              /\ cite_out' = [call |-> "validate_citation",
                              citation |-> citation, result |-> v.result]
    /\ UNCHANGED <<pages, chunk_table>>

ComputeGrounding ==
    /\ cite_out.call = "none"
    /\ \E answer_text \in Answers :
          LET g == compute_grounding(answer_text, PAGE_CACHE, pages, chunk_table)
          IN  /\ PAGE_CACHE' = g.cache
              /\ page_lookups' = Counted(page_lookups, g.lookups)
              /\ cite_out' = [call |-> "compute_grounding",
                              answer_text |-> answer_text, report |-> g.report]
    /\ UNCHANGED <<pages, chunk_table>>

\* the caller takes the returned value
CiteReturn ==
    /\ cite_out.call # "none"
    /\ cite_out' = NoCall
    /\ UNCHANGED <<pages, chunk_table, PAGE_CACHE, page_lookups>>

(***************************************************************************)
(* The pipeline (src/pipeline.py): run_ingestion, build_retriever and      *)
(* answer_question over the store, the module's CHUNK_CACHE and the        *)
(* retriever the caller passes to answer_question (bm25, dense).  A chunk  *)
(* row of the pipeline carries its chunk_id and whether it has an          *)
(* embedding.                                                              *)
(***************************************************************************)
DefaultMaxTokens == 512
DefaultOverlap == 50
DefaultThreshold == 75

FourSentences ==
    <<"a", ".", " ", "a", ".", " ", "a", "a", ".", " ", "a", ".">>
FolderTexts == {ShortPage, FourSentences}

\* similarities of adjacent sentences the embedding service can give
FolderSims(page_text) ==
    IF Len(_split_sentences(page_text)) = 4
    THEN {<<80, 70, 80>>, <<80, 80, 80>>}
    ELSE {<<>>}

\* db.get_all_chunks with a mode: the rows of that mode, in row order
get_all_chunks_mode(chunks_, chunk_mode) ==
    SelectSeq(chunks_, LAMBDA c : c.chunk_mode = chunk_mode)

\* db.clear_chunks with a mode: DELETE FROM chunks WHERE chunk_mode = ?
clear_chunks_mode(chunks_, chunk_mode) ==
    SelectSeq(chunks_, LAMBDA c : c.chunk_mode # chunk_mode)

\* db.insert_chunks_batch
RECURSIVE insert_chunks_batch(_, _)
insert_chunks_batch(chunks_, batch) ==
    IF batch = <<>> THEN chunks_
    ELSE insert_chunks_batch(insert_chunk(chunks_, Head(batch)), Tail(batch))

\* the chunks of one page in run_ingestion: chunked with the default
\* budgets, given fresh ids by _make_chunk and an embedding each
IngestedChunks(page_text, chunk_mode, sims, used) ==
    LET page_data_ == [doc_id |-> D1, page |-> 1, text |-> page_text,
                       text_blocks |-> <<>>]
        made == IF chunk_mode = "structural"
                THEN structural_chunk(page_data_, DefaultMaxTokens, DefaultOverlap)
                ELSE semantic_chunk(page_data_, sims, DefaultThreshold,
                                    DefaultMaxTokens)
    IN  [i \in 1..Len(made) |->
            made[i] @@ [chunk_id |-> used + i, embedding |-> TRUE]]

ChunkModes == {"structural", "semantic"}

\* build_retriever: CHUNK_CACHE = {c["chunk_id"]: c for c in chunks}
CacheOf(chunks_) ==
    [cid \in {chunks_[i].chunk_id : i \in 1..Len(chunks_)} |->
        chunks_[CHOOSE i \in 1..Len(chunks_) : chunks_[i].chunk_id = cid]]

\* context assembly that keeps a place for every retrieved result
ContextChunksPadded(results, cache) ==
    [i \in 1..Len(results) |->
        IF results[i].chunk_id \in DOMAIN cache THEN cache[results[i].chunk_id]
        ELSE [chunk_id |-> results[i].chunk_id]]

\* [CHUNK_CACHE[r["chunk_id"]] for r in results if r["chunk_id"] in CHUNK_CACHE]
ContextChunks(results, cache) ==
    LET kept == SelectSeq(results, LAMBDA r : r.chunk_id \in DOMAIN cache)
    IN  [i \in 1..Len(kept) |-> cache[kept[i].chunk_id]]

\* the answers generate_answer can give
PipeAnswers == SeqsUpTo(Segments, 1)

NoAnswer == [call |-> "none"]

PipeIdle ==
    /\ CHUNK_CACHE = [cid \in {} |-> None]
    /\ uuids = 0
    /\ answer_out = NoAnswer

\* run_ingestion over a folder with one page
RunIngestion ==
    /\ answer_out.call = "none"
    /\ \E chunk_mode \in ChunkModes, page_text \in FolderTexts :
          \E sims \in FolderSims(page_text) :
             LET all_chunks == IngestedChunks(page_text, chunk_mode, sims, uuids)
             IN  /\ uuids + Len(all_chunks) <= MaxUuids
                 /\ pages' = insert_page(pages, D1, 1, page_text)
                 /\ chunk_table' =
                       insert_chunks_batch(
                           clear_chunks_mode(chunk_table, chunk_mode), all_chunks)
                 /\ uuids' = uuids + Len(all_chunks)
    /\ UNCHANGED <<CHUNK_CACHE, answer_out, bm25, dense, search, PAGE_CACHE, page_lookups, cite_out>>

\* build_retriever; the caller takes the returned retriever as the one it
\* passes to answer_question, or goes on with one it was given before
BuildRetriever ==
    /\ answer_out.call = "none"
    /\ \E chunk_mode \in ChunkModes, take \in BOOLEAN :
          LET chunks == get_all_chunks_mode(chunk_table, chunk_mode)
          IN  /\ chunks # <<>>
              /\ CHUNK_CACHE' = CacheOf(chunks)
              /\ IF take
                 THEN /\ bm25' = bm25_build(chunks)
                      /\ dense' = dense_build(
                            [index |-> [built |-> FALSE, owners |-> <<>>],
                             chunk_ids |-> <<>>], chunks)
                 ELSE UNCHANGED <<bm25, dense>>
    /\ UNCHANGED <<pages, chunk_table, uuids, answer_out, search, PAGE_CACHE, page_lookups, cite_out>>

\* build_retriever when the store has no chunk of the mode: it returns None
\* and leaves CHUNK_CACHE as it was
BuildRetrieverNone ==
    /\ answer_out.call = "none"
    /\ \E chunk_mode \in ChunkModes :
          get_all_chunks_mode(chunk_table, chunk_mode) = <<>>
    /\ UNCHANGED <<pages, chunk_table, CHUNK_CACHE, uuids, answer_out,
                   bm25, dense, search, PAGE_CACHE, page_lookups, cite_out>>

\* answer_question with a retriever build_retriever returned
AnswerQuestion ==
    /\ answer_out.call = "none"
    /\ bm25.built
    /\ \E method \in Methods, top_k \in TopKs,
          bm25_order \in Perms(Len(bm25.chunk_ids)),
          dense_order \in Perms(Len(dense.index.owners)),
          answer \in PipeAnswers :
          LET s == hybrid_search(method, top_k, bm25_order, dense_order)
              context_chunks == ContextChunks(s.call.results, CHUNK_CACHE)
              g == compute_grounding(answer, PAGE_CACHE, pages, chunk_table)
          IN  IF s.call.status = "raised"
              THEN /\ answer_out' = [call |-> "answer_question",
                                     status |-> "raised",
                                     error |-> s.call.error,
                                     results |-> <<>>,
                                     context_chunks |-> <<>>,
                                     answer |-> <<>>,
                                     grounding |-> None]
                   /\ UNCHANGED <<PAGE_CACHE, page_lookups>>
              ELSE /\ answer_out' = [call |-> "answer_question",
                                     status |-> "ok",
                                     error |-> "none",
                                     results |-> s.call.results,
                                     context_chunks |-> context_chunks,
                                     answer |-> answer,
                                     grounding |-> g.report]
                   /\ PAGE_CACHE' = g.cache
                   /\ page_lookups' = Counted(page_lookups, g.lookups)
    /\ UNCHANGED <<pages, chunk_table, CHUNK_CACHE, uuids, bm25, dense, search,
                   cite_out>>

\* the caller takes the returned value
AnswerReturn ==
    /\ answer_out.call # "none"
    /\ answer_out' = NoAnswer
    /\ UNCHANGED <<pages, chunk_table, CHUNK_CACHE, uuids, bm25, dense, search,
                   PAGE_CACHE, page_lookups, cite_out>>

(***************************************************************************)
(* Specifications: one per component, the other components at rest.       *)
(***************************************************************************)
NextChunk == (StructuralChunk \/ SemanticChunk) /\ UNCHANGED <<swVars, fuseVars, retrVars, citeVars, pipeVars>>
NextSlide == (SlideIter \/ SlideReturn) /\ UNCHANGED <<chunkVars, fuseVars, retrVars, citeVars, pipeVars>>
NextFuse == Fuse /\ UNCHANGED <<chunkVars, swVars, retrVars, citeVars, pipeVars>>
NextRetr == (HybridBuild \/ HybridSearch) /\ UNCHANGED <<chunkVars, swVars, fuseVars, citeVars, pipeVars>>
NextCite ==
    (InsertPage \/ InsertChunk \/ ClearChunks \/ ValidateCitation
        \/ ComputeGrounding \/ CiteReturn)
    /\ UNCHANGED <<chunkVars, swVars, fuseVars, retrVars, pipeVars>>
NextPipe ==
    (RunIngestion \/ BuildRetriever \/ BuildRetrieverNone \/ AnswerQuestion
        \/ AnswerReturn)
    /\ UNCHANGED <<chunkVars, swVars, fuseVars>>

ChunkIdle == InitChunk /\ enc = "word"

InitChunkSpec == InitChunk /\ SlideIdle /\ FuseIdle /\ RetrIdle /\ CiteIdle /\ PipeIdle
InitSlideSpec == InitChunk /\ InitSlide /\ FuseIdle /\ RetrIdle /\ CiteIdle /\ PipeIdle
InitFuseSpec == ChunkIdle /\ SlideIdle /\ FuseIdle /\ RetrIdle /\ CiteIdle /\ PipeIdle
InitRetrSpec == ChunkIdle /\ SlideIdle /\ FuseIdle /\ RetrIdle /\ CiteIdle /\ PipeIdle
InitCiteSpec == ChunkIdle /\ SlideIdle /\ FuseIdle /\ RetrIdle /\ CiteIdle /\ PipeIdle
InitPipeSpec == ChunkIdle /\ SlideIdle /\ FuseIdle /\ RetrIdle /\ CiteIdle /\ PipeIdle

SpecChunk == InitChunkSpec /\ [][NextChunk]_vars
SpecSlide == InitSlideSpec /\ [][NextSlide]_vars
SpecFuse == InitFuseSpec /\ [][NextFuse]_vars
SpecRetr == InitRetrSpec /\ [][NextRetr]_vars
SpecCite == InitCiteSpec /\ [][NextCite]_vars
SpecPipe == InitPipeSpec /\ [][NextPipe]_vars

(***************************************************************************)
(* Properties of the chunkers.                                             *)
(***************************************************************************)
ChunkDone == ck_call.fn # "none"

IsSorted(f) == \A i, j \in DOMAIN f : i < j => f[i] < f[j]

\* C3: every chunk a chunker returns has 0 <= char_start < char_end <=
\* len(page.text), and the page text sliced at those offsets is the chunk's
\* text, character for character.
OffsetFidelity ==
    ChunkDone =>
        \A i \in 1..Len(out_chunks) :
            LET c == out_chunks[i]
            IN  /\ 0 <= c.char_start
                /\ c.char_start < c.char_end
                /\ c.char_end <= Len(page_data.text)
                /\ SubSeq(page_data.text, c.char_start + 1, c.char_end)
                       = c.chunk_text

\* a structural pass over a page with leading whitespace that produced a
\* heading section and sliding-window sub-chunks
OffsetFidelityWitness ==
    /\ ck_call.fn = "structural_chunk"
    /\ Len(out_chunks) >= 3
    /\ IsSpace(page_data.text[1])
    /\ \E i \in 1..Len(out_chunks) : out_chunks[i].heading # None
    /\ \E i \in 1..Len(out_chunks) : out_chunks[i].char_start > 1

\* C4: the splitter terminates (the loop runs at most once per word and
\* start_w never passes the word count), its start word index grows in every
\* loop iteration, and the windows it returns have strictly increasing
\* char_start.
SlidingProgress ==
    /\ [][sw_chunks' # sw_chunks => start_w' > start_w]_vars
    /\ [](IsSorted([i \in 1..Len(sw_chunks) |-> sw_chunks[i].char_start]))
    /\ [](/\ Len(sw_chunks) <= Len(WordSpans(sw_in.text))
          /\ start_w <= Len(WordSpans(sw_in.text)))

\* a finished split with overlap >= max_tokens, several windows, and a
\* window of one word that alone exceeds the budget
SlidingProgressWitness ==
    /\ sw_pc = "done"
    /\ sw_in.overlap_tokens >= sw_in.max_tokens
    /\ Len(sw_chunks) >= 2
    /\ \E i \in 1..Len(sw_chunks) :
          /\ Len(WordSpans(sw_chunks[i].text)) = 1
          /\ count_tokens(sw_chunks[i].text) > sw_in.max_tokens

\* C5: every chunk of either chunker is within the token budget unless it
\* is a sliding window of exactly one whitespace-delimited word.
BudgetRespect ==
    ChunkDone =>
        \A i \in 1..Len(out_chunks) :
            LET c == out_chunks[i]
            IN  \/ c.token_count <= ck_call.max_tokens
                \/ Len(WordSpans(c.chunk_text)) = 1

\* C11: the chunks one call of structural_chunk or semantic_chunk returns are
\* ordered by char_start: no chunk starts before the chunk emitted before it,
\* across section and group boundaries and across sliding-window sub-chunks.
ChunkOrder ==
    ChunkDone =>
        \A i \in 1..(Len(out_chunks) - 1) :
            out_chunks[i].char_start <= out_chunks[i + 1].char_start

\* a structural pass that emitted sliding-window sub-chunks of one section
\* and then a chunk of the next section
ChunkOrderWitness ==
    /\ ck_call.fn = "structural_chunk"
    /\ \E i \in 1..(Len(out_chunks) - 2) :
          /\ out_chunks[i].heading = out_chunks[i + 1].heading
          /\ out_chunks[i + 1].heading # out_chunks[i + 2].heading
          /\ out_chunks[i].char_start < out_chunks[i + 1].char_start
          /\ out_chunks[i + 1].char_start < out_chunks[i + 2].char_start

RECURSIVE Concat(_)
Concat(gs) == IF gs = <<>> THEN <<>> ELSE Head(gs) \o Concat(Tail(gs))

\* the first sentence index of every group
StartsOf(gs) == {gs[k][1] : k \in 1..Len(gs)}

\* consecutive runs that partition the sentence indices 0..n-1 in order
IsPartition(gs, n) ==
    /\ \A k \in 1..Len(gs) : gs[k] # <<>>
    /\ Concat(gs) = [i \in 1..n |-> i - 1]

\* C14: with two sentences or more, semantic_chunk cuts a new group exactly
\* at the adjacent pairs whose similarity is below the threshold, then merges
\* every group of fewer than 2 sentences into the group before it; the final
\* groups partition the sentence indices into consecutive runs in order, and
\* every final group but the first has at least 2 sentences.
GroupsMerged ==
    (ck_call.fn = "semantic_chunk" /\ Len(ck_call.sims) >= 1) =>
        LET sims == ck_call.sims
            n == Len(sims) + 1
            groups == ck_call.groups
            merged == ck_call.merged
        IN  /\ IsPartition(groups, n)
            /\ StartsOf(groups) =
                  {0} \cup {i \in 1..(n - 1) :
                              sims[i] < ck_call.similarity_threshold}
            /\ IsPartition(merged, n)
            /\ StartsOf(merged) =
                  {0} \cup {groups[k][1] : k \in {j \in 2..Len(groups) :
                                                    Len(groups[j]) >= 2}}
            /\ \A k \in 2..Len(merged) : Len(merged[k]) >= 2

\* a pass whose first group is one sentence and stands alone, and in which
\* a later group of one sentence was merged into the group before it
GroupsMergedWitness ==
    /\ ck_call.fn = "semantic_chunk"
    /\ Len(ck_call.sims) >= 3
    /\ Len(ck_call.merged) >= 2
    /\ Len(ck_call.merged[1]) = 1
    /\ \E k \in 2..Len(ck_call.groups) : Len(ck_call.groups[k]) = 1
    /\ \E k \in 2..Len(ck_call.merged) : Len(ck_call.merged[k]) >= 3

(***************************************************************************)
(* Properties of reciprocal_rank_fusion.                                   *)
(***************************************************************************)
FuseDone == fused.call # "none"

IdsOf(out) == [p \in 1..Len(out) |-> out[p].chunk_id]

\* the lists of the example: x, y, z are the chunk ids 1, 2, 3
ExampleLists == <<Ranked(<<1, 2>>), Ranked(<<2, 3>>)>>

ScoreOf(out, cid) ==
    LET p == CHOOSE q \in 1..Len(out) : out[q].chunk_id = cid
    IN  out[p].rrf_score

\* C6 as stated: on listA = [(x,1),(y,2)], listB = [(y,1),(z,2)], k = 60 the
\* fused score of y is 1/61 + 1/61, above x (1/61) and z (1/62), and the
\* order is [y, x, z].
FusionExampleAsStated ==
    (FuseDone /\ result_lists = ExampleLists) =>
        /\ IdsOf(fused.out) = <<2, 1, 3>>
        /\ ScoreOf(fused.out, 2) = ScoreDen \div 61 + ScoreDen \div 61
        /\ ScoreOf(fused.out, 1) = ScoreDen \div 61
        /\ ScoreOf(fused.out, 3) = ScoreDen \div 62

\* C6 amended: on the example the fused score of y is 1/62 + 1/61 (y has
\* rank 2 in listA and rank 1 in listB), above x (1/61) and z (1/62), and the
\* order is [y, x, z].
FusionExample ==
    (FuseDone /\ result_lists = ExampleLists) =>
        /\ IdsOf(fused.out) = <<2, 1, 3>>
        /\ ScoreOf(fused.out, 2) = ScoreDen \div 62 + ScoreDen \div 61
        /\ ScoreOf(fused.out, 1) = ScoreDen \div 61
        /\ ScoreOf(fused.out, 3) = ScoreDen \div 62
        /\ ScoreOf(fused.out, 2) > ScoreOf(fused.out, 1)
        /\ ScoreOf(fused.out, 1) > ScoreOf(fused.out, 3)

\* the fusion of the example lists has returned
FusionExampleWitness ==
    FuseDone /\ result_lists = ExampleLists /\ Len(fused.out) = 3

\* sum of 1/(k+rank) over the first n lists that hold cid
RECURSIVE ExpectedScore(_, _, _)
ExpectedScore(lists, cid, n) ==
    IF n = 0 THEN 0
    ELSE ExpectedScore(lists, cid, n - 1) +
         (IF \E i \in 1..Len(lists[n]) : lists[n][i].chunk_id = cid
          THEN LET i == CHOOSE q \in 1..Len(lists[n]) : lists[n][q].chunk_id = cid
               IN  ScoreDen \div (RRF_K + lists[n][i].rank)
          ELSE 0)

\* where cid first appears when the lists are read in order
FirstSeen(lists, cid) ==
    SetMin({n * (MaxIds + 1) + i : n \in 1..Len(lists), i \in 1..MaxIds} \cap
           UNION {{n * (MaxIds + 1) + i :
                      i \in {q \in 1..Len(lists[n]) :
                                lists[n][q].chunk_id = cid}} :
                  n \in 1..Len(lists)})

\* C7: the fusion returns every chunk id of the input lists exactly once,
\* scored with the sum of 1/(k+rank) over the lists holding it, in order of
\* non-increasing score, ranked 1..N, equal scores in order of first
\* appearance.
FusionCorrect ==
    FuseDone =>
        LET out == fused.out
        IN  /\ {out[p].chunk_id : p \in 1..Len(out)} =
                   {c \in ChunkIds : \E n \in 1..Len(result_lists) :
                        \E i \in 1..Len(result_lists[n]) :
                            result_lists[n][i].chunk_id = c}
            /\ \A p, q \in 1..Len(out) :
                   p # q => out[p].chunk_id # out[q].chunk_id
            /\ \A p \in 1..Len(out) :
                   /\ out[p].rank = p
                   /\ out[p].rrf_score =
                          ExpectedScore(result_lists, out[p].chunk_id,
                                        Len(result_lists))
            /\ \A p, q \in 1..Len(out) :
                   p < q =>
                       \/ out[p].rrf_score > out[q].rrf_score
                       \/ /\ out[p].rrf_score = out[q].rrf_score
                          /\ FirstSeen(result_lists, out[p].chunk_id)
                                 < FirstSeen(result_lists, out[q].chunk_id)

\* two lists sharing an id, with two ids of equal fused score
FusionCorrectWitness ==
    /\ FuseDone
    /\ Len(result_lists) = 2
    /\ \E p \in 1..Len(fused.out) :
          fused.out[p].rrf_score > ScoreDen \div (RRF_K + 1)
    /\ \E p \in 1..Len(fused.out) : \E q \in (p + 1)..Len(fused.out) :
          fused.out[p].rrf_score = fused.out[q].rrf_score

Swapped == <<result_lists[2], result_lists[1]>>

\* C8 as stated: fusing [A, B] and fusing [B, A] return the same sequence
\* of chunk ids with the same scores and ranks.
FusionCommutesAsStated ==
    (FuseDone /\ Len(result_lists) = 2) =>
        fused.out = reciprocal_rank_fusion(Swapped, RRF_K)

\* C8 amended: fusing [A, B] and fusing [B, A] return the same chunk ids
\* with the same scores, in non-increasing score order; the two sequences
\* agree at every position whose score no other id shares, and ids of equal
\* score may come in a different order.
FusionCommutes ==
    (FuseDone /\ Len(result_lists) = 2) =>
        LET a == fused.out
            b == reciprocal_rank_fusion(Swapped, RRF_K)
        IN  /\ Len(a) = Len(b)
            /\ \A p \in 1..Len(a) :
                   /\ a[p].rrf_score = b[p].rrf_score
                   /\ a[p].rank = b[p].rank
                   /\ \E q \in 1..Len(b) :
                          /\ b[q].chunk_id = a[p].chunk_id
                          /\ b[q].rrf_score = a[p].rrf_score
                   /\ (\A q \in 1..Len(a) :
                          q # p => a[q].rrf_score # a[p].rrf_score)
                      => b[p] = a[p]

\* two lists sharing an id whose fusion changes when the lists are swapped
FusionCommutesWitness ==
    /\ FuseDone
    /\ Len(result_lists) = 2
    /\ \E i \in 1..Len(result_lists[1]) : \E j \in 1..Len(result_lists[2]) :
          result_lists[1][i].chunk_id = result_lists[2][j].chunk_id
    /\ fused.out # reciprocal_rank_fusion(Swapped, RRF_K)

(***************************************************************************)
(* Properties of the retriever.                                            *)
(***************************************************************************)
\* C9: after a build that was given no chunk with an embedding the dense
\* index is empty, and a dense or fused search returns no dense results and
\* does not raise.
NoEmbeddingsNoError ==
    (bm25.built /\ dense.chunk_ids = <<>>) =>
        /\ dense.index.owners = <<>>
        /\ search.method \in {"dense", "rrf"} =>
              /\ search.call.status = "ok"
              /\ search.dense_res = Returned(<<>>)

\* C17: after any sequence of DenseRetriever.build calls the dense index
\* holds len(chunk_ids) vectors, the i-th of them the vector of chunk_ids[i],
\* there is no index when chunk_ids is empty, and a dense search returns
\* only chunk ids of the most recent build.
DenseIndexAligned ==
    /\ Len(dense.index.owners) = Len(dense.chunk_ids)
    /\ \A i \in 1..Len(dense.index.owners) :
          dense.index.owners[i] = dense.chunk_ids[i]
    /\ dense.chunk_ids = <<>> => ~dense.index.built
    /\ (search.method = "dense" /\ search.call.status = "ok") =>
          \A r \in 1..Len(search.call.results) :
             \E i \in 1..Len(dense.chunk_ids) :
                search.call.results[r].chunk_id = dense.chunk_ids[i]

(***************************************************************************)
(* Properties of citation validation and grounding.                        *)
(***************************************************************************)
CitedKey(c) == <<c.doc_id, c.page>>

\* the offsets are in range of the text and the slice there is not blank
Selects(c, text) ==
    /\ 0 <= c.char_start /\ c.char_start < c.char_end /\ c.char_end <= Len(text)
    /\ Strip(PySlice(text, c.char_start, c.char_end)) # <<>>

\* a stored chunk of the cited page covers the cited range
Covered(c) ==
    \E i \in 1..Len(chunk_table) :
        /\ chunk_table[i].doc_id = c.doc_id /\ chunk_table[i].page = c.page
        /\ chunk_table[i].char_start <= c.char_start
        /\ c.char_end <= chunk_table[i].char_end

MarkersOf(answer_text) == SelectSeq(answer_text, LAMBDA m : m.kind = "marker")

\* C1: validate_citation always returns a result, and the result is invalid
\* whenever the offsets are out of range of the stored text of the cited
\* page or the slice at those offsets is blank.
ValidationSound ==
    cite_out.call = "validate_citation" =>
        LET c == cite_out.citation
        IN  /\ cite_out.result.valid \in BOOLEAN
            /\ (CitedKey(c) \in DOMAIN pages /\ ~Selects(c, pages[CitedKey(c)]))
                  => ~cite_out.result.valid

\* C2: for an answer with one citation of a stored page, offsets that select
\* the cited substring give ratio 100 with valid 1 and total 1, and offsets
\* that are such a citation with one offset increased by 1, with no stored
\* chunk covering the shifted range, give ratio 0.
GroundingRoundTrip ==
    (cite_out.call = "compute_grounding"
        /\ Len(MarkersOf(cite_out.answer_text)) = 1) =>
        LET c == extract_citations(cite_out.answer_text)[1]
            r == cite_out.report
            text == pages[CitedKey(c)]
            start_back == [c EXCEPT !.char_start = @ - 1]
            end_back == [c EXCEPT !.char_end = @ - 1]
        IN  CitedKey(c) \in DOMAIN pages =>
               /\ Selects(c, text) =>
                     /\ r.grounding_pct.num = 100 * r.grounding_pct.den
                     /\ r.valid = 1 /\ r.total = 1
               /\ ((Selects(start_back, text) \/ Selects(end_back, text))
                     /\ ~Covered(c)) => r.grounding_pct.num = 0

\* C13: validate_citation returns invalid exactly when the page-text path
\* fails (page not stored, offsets out of range, or blank slice) and no
\* stored chunk of the page contains the cited range; when the page path
\* succeeds the cited text is the page slice, and when only the chunk path
\* succeeds it is a covering chunk's text sliced at the offset delta.
ValidationTwoPaths ==
    cite_out.call = "validate_citation" =>
        LET c == cite_out.citation
            r == cite_out.result
            page_ok == /\ CitedKey(c) \in DOMAIN pages
                       /\ Selects(c, pages[CitedKey(c)])
        IN  /\ ~r.valid <=> (~page_ok /\ ~Covered(c))
            /\ page_ok =>
                  r.cited_text = PySlice(pages[CitedKey(c)], c.char_start, c.char_end)
            /\ (~page_ok /\ Covered(c)) =>
                  \E i \in 1..Len(chunk_table) :
                     /\ chunk_table[i].doc_id = c.doc_id
                     /\ chunk_table[i].page = c.page
                     /\ chunk_table[i].char_start <= c.char_start
                     /\ c.char_end <= chunk_table[i].char_end
                     /\ r.cited_text =
                           PySlice(chunk_table[i].chunk_text,
                                   c.char_start - chunk_table[i].char_start,
                                   c.char_end - chunk_table[i].char_start)

\* the texts validate_citation can return for a citation: the slice of the
\* cached page text, or the slice of a chunk that covers the range
CitedTexts(c) ==
    (IF CitedKey(c) \in DOMAIN PAGE_CACHE /\ PAGE_CACHE[CitedKey(c)] # None
     THEN {PySlice(PAGE_CACHE[CitedKey(c)], c.char_start, c.char_end)} ELSE {})
    \cup
    {PySlice(chunk_table[i].chunk_text,
             c.char_start - chunk_table[i].char_start,
             c.char_end - chunk_table[i].char_start) :
        i \in {j \in 1..Len(chunk_table) :
                 chunk_table[j].doc_id = c.doc_id /\ chunk_table[j].page = c.page}}

\* C10: without a citation compute_grounding returns ratio 0, total 0,
\* valid 0 and no details; otherwise total is the number of citations,
\* 0 <= valid <= total, ratio = 100 * valid / total, and details has one
\* record per citation in answer order, its preview none or the first 80
\* characters at most of the cited text.
GroundingReport ==
    cite_out.call = "compute_grounding" =>
        LET ms == MarkersOf(cite_out.answer_text)
            r == cite_out.report
        IN  IF ms = <<>>
            THEN /\ r.grounding_pct.num = 0
                 /\ r.total = 0 /\ r.valid = 0 /\ r.details = <<>>
            ELSE /\ r.total = Len(ms)
                 /\ 0 <= r.valid /\ r.valid <= r.total
                 /\ r.valid = Cardinality({i \in 1..Len(r.details) : r.details[i].valid})
                 /\ r.grounding_pct.num * r.total = 100 * r.valid * r.grounding_pct.den
                 /\ Len(r.details) = Len(ms)
                 /\ \A i \in 1..Len(ms) :
                       /\ r.details[i].citation = ms[i]
                       /\ \/ r.details[i].preview = None
                          \/ \E t \in CitedTexts(extract_citations(<<ms[i]>>)[1]) :
                                r.details[i].preview = SubSeq(t, 1, Min(80, Len(t)))

\* a report over two citations, one valid and one not, with a preview cut
\* to 80 characters from a longer cited text
GroundingReportWitness ==
    /\ cite_out.call = "compute_grounding"
    /\ cite_out.report.total = 2
    /\ cite_out.report.valid = 1
    /\ \E i \in 1..2 :
          /\ cite_out.report.details[i].valid
          /\ Len(cite_out.report.details[i].preview) = 80
          /\ cite_out.answer_text[i].char_end - cite_out.answer_text[i].char_start > 80
          /\ ~cite_out.report.details[3 - i].valid
          /\ cite_out.report.details[3 - i].preview = None

\* C15: over any sequence of validate_citation calls the store's
\* get_page_text is called at most once for each (doc_id, page) key, also
\* for a key whose page was not found.
LookupOnce == \A k \in Keys : page_lookups[k] <= 1

\* a grounding run that validated two citations of a page that is not
\* stored, with one lookup for it
LookupOnceWitness ==
    /\ cite_out.call = "compute_grounding"
    /\ Len(MarkersOf(cite_out.answer_text)) = 2
    /\ \A i \in 1..2 : Strip(MarkersOf(cite_out.answer_text)[i].doc) = D2
    /\ <<D2, 1>> \notin DOMAIN pages
    /\ PAGE_CACHE[<<D2, 1>>] = None
    /\ page_lookups[<<D2, 1>>] = 1

\* C16: after any interleaving of insert_page and validate_citation calls,
\* every PAGE_CACHE entry equals what get_page_text returns for its key now,
\* and validate_citation returns what a validation against the current
\* store contents returns.
CacheCoherent ==
    /\ \A k \in DOMAIN PAGE_CACHE :
          PAGE_CACHE[k] = get_page_text(pages, k[1], k[2])
    /\ cite_out.call = "validate_citation" =>
          cite_out.result =
             validate_citation(cite_out.citation, [k \in {} |-> None],
                               pages, chunk_table).result

(***************************************************************************)
(* Properties of the pipeline.                                             *)
(***************************************************************************)
\* C12: answer_question never fails on a retrieved chunk id that is missing
\* from CHUNK_CACHE: the context chunks are the cached chunks of exactly the
\* retrieved results whose ids are in CHUNK_CACHE, in rank order, and the
\* other results are left out.
ContextFromCache ==
    answer_out.call = "answer_question" =>
        /\ answer_out.error # "KeyError"
        /\ answer_out.status = "ok" =>
              LET kept == SelectSeq(answer_out.results,
                                    LAMBDA r : r.chunk_id \in DOMAIN CHUNK_CACHE)
                  ctx == answer_out.context_chunks
              IN  /\ Len(ctx) = Len(kept)
                  /\ \A i \in 1..Len(ctx) : ctx[i] = CHUNK_CACHE[kept[i].chunk_id]
                  /\ \A i, j \in 1..Len(kept) : i < j => kept[i].rank < kept[j].rank

\* an answer from a retriever older than CHUNK_CACHE: results were retrieved,
\* none of their ids is cached, and the context is empty
ContextFromCacheWitness ==
    /\ answer_out.call = "answer_question"
    /\ answer_out.status = "ok"
    /\ Len(answer_out.results) >= 2
    /\ \A i \in 1..Len(answer_out.results) :
          answer_out.results[i].chunk_id \notin DOMAIN CHUNK_CACHE
    /\ answer_out.context_chunks = <<>>

====
